---- MODULE Spec2Model ----
(***************************************************************************)
(* Model of src/app.py: the text-extraction and fact-parsing pipeline of   *)
(* the quasi-judicial order drafting tool (PDF tier fallback, dispatcher,  *)
(* redactor, clause highlighter, Marathi fact parser).                     *)
(***************************************************************************)
EXTENDS Integers, Sequences, FiniteSets, TLC

VARIABLES
    pc,       \* position inside one call of extract_text_from_pdf
    mods,     \* what _mods() found: which optional backends are importable
    text,     \* the local `text`: the best text so far
    outA,     \* outcome of tier A (PyMuPDF, plain text)
    outB,     \* outcome of tier B (PyMuPDF, blocks)
    outC,     \* outcome of tier C (pdfminer)
    outD,     \* outcome of tier D (pypdf)
    tmp,      \* the temporary file of tier C
    ret,      \* the value returned by extract_text_from_pdf
    hl_pc,    \* position of one call of highlight_gr
    gr,       \* its argument `text`, as text.splitlines() of token lines
    hl_out,   \* the string it returns, as a sequence of tokens
    red_pc,   \* position of the redactor run
    s0,       \* the text handed to red, a sequence of characters
    s1,       \* red(s0)
    s2,       \* red(red(s0))
    case_pc,  \* position of the case-document run: extract, then parse
    file,     \* the uploaded file: its name and what its bytes hold
    case_text,\* the text extract_any returned, as lines of tokens
    ocr,      \* the OCR backend: "missing", "raises" or "ok"
    escaped,  \* whether an exception escaped extract_any
    facts,    \* the dict parse_marathi_case returned
    widgets,  \* the widget values and the environment of the latest script run
    session,  \* st.session_state: its keys and the entries of the analysis
    notice,   \* what the Analyze tab reported in the latest script run
    orders,   \* what the Order tab built in the latest script run
    last_ok   \* history: the analysis of the latest Run Analysis that stored one

pdfvars == <<pc, mods, text, outA, outB, outC, outD, tmp, ret>>
hlvars == <<hl_pc, gr, hl_out>>
redvars == <<red_pc, s0, s1, s2>>
casevars == <<case_pc, file, ocr, case_text, escaped, facts>>
uivars == <<widgets, session, notice, orders, last_ok>>
vars == <<pdfvars, hlvars, redvars, casevars, uivars>>

(***************************************************************************)
(* Texts.  A string is abstracted to what the code looks at: its length    *)
(* (n characters of stripped content plus ws characters of surrounding     *)
(* whitespace), whether DEVN finds a Devanagari character in it, and which *)
(* backend produced it (two different backends give different strings,     *)
(* except that every empty string is the same string).                     *)
(***************************************************************************)

\* len(text) < 60 in the guard of tier B
BlockRetryLen == 60

\* len(text) < 50 in the guard of tier D
PypdfRetryLen == 50

\* largest amount of surrounding whitespace a raw backend text carries
MaxPad == 1

\* lengths of the stripped content of a backend's text, around both thresholds
Lens == {0, 40, 49, PypdfRetryLen, BlockRetryLen - 1, BlockRetryLen, 70}

Empty == [src |-> "none", n |-> 0, ws |-> 0, devn |-> FALSE]

MkText(src, n, ws, devn) ==
    IF n = 0 /\ ws = 0 THEN Empty
    ELSE [src |-> src, n |-> n, ws |-> ws, devn |-> (devn /\ n > 0)]

\* len(s)
TLen(t) == t.n + t.ws

\* DEVN.search(s) is not None
DEVN(t) == t.devn

\* s.strip()
Strip(t) == IF t.n = 0 THEN Empty ELSE [t EXCEPT !.ws = 0]

\* the texts a backend can hand back already stripped
StrippedTexts(src) == { MkText(src, n, 0, d) : n \in Lens, d \in BOOLEAN }

\* the texts a backend can hand back unstripped
RawTexts(src) == { MkText(src, n, w, d) : n \in Lens, w \in 0..MaxPad, d \in BOOLEAN }

\* a handler that would throw away the best text together with the exception
ExceptReset(cur) == Empty

\* the local `text` after a bare `except: pass` swallowed a tier's exception
ExceptPass(cur) == cur

\* guard of tier B: not DEVN.search(text) or len(text)<60
NeedBlocks(cur) == ~DEVN(cur) \/ TLen(cur) < BlockRetryLen

\* guard of tier C: not DEVN.search(text)
NeedPdfminer(cur) == ~DEVN(cur)

\* a guard of tier D that took the threshold of tier B
NeedPypdfBelowBlockLen(cur) == TLen(cur) < BlockRetryLen

\* guard of tier D: len(text)<50
NeedPypdf(cur) == TLen(cur) < PypdfRetryLen

\* if len(tb)>len(text) or (DEVN.search(tb) and not DEVN.search(text)): text = tb
AdoptBlocks(tb, cur) ==
    IF TLen(tb) > TLen(cur) \/ (DEVN(tb) /\ ~DEVN(cur)) THEN tb ELSE cur

\* if DEVN.search(t2) or len(t2)>len(text): text=t2
AdoptPdfminer(t2, cur) ==
    IF DEVN(t2) \/ TLen(t2) > TLen(cur) THEN t2 ELSE cur

\* if DEVN.search(t3) or len(t3)>len(text): text=t3
AdoptPypdf(t3, cur) ==
    IF DEVN(t3) \/ TLen(t3) > TLen(cur) THEN t3 ELSE cur

Pending == [kind |-> "pending", t |-> Empty]
Out(kind, t) == [kind |-> kind, t |-> t]

\* extract_text_with_pypdf: "" when pypdf is missing or anything raises
extract_text_with_pypdf(available, raised, pages) ==
    IF ~available THEN Empty
    ELSE IF raised THEN Empty
    ELSE Strip(pages)

(***************************************************************************)
(* One call of extract_text_from_pdf.                                      *)
(***************************************************************************)

PdfInit ==
    /\ pc = "A"
    /\ mods \in [fitz : BOOLEAN, pdfminer : BOOLEAN, pypdf : BOOLEAN]
    /\ text = Empty
    /\ outA = Pending /\ outB = Pending /\ outC = Pending /\ outD = Pending
    /\ tmp = "none"
    /\ ret = Empty

\* A) PyMuPDF: open, join the pages' text, strip, close
TierA ==
    /\ pc = "A"
    /\ pc' = "B"
    /\ IF ~mods.fitz
       THEN /\ outA' = Out("unavailable", Empty)
            /\ text' = text
       ELSE \/ /\ outA' = Out("raised", Empty)      \* fitz.open or get_text raised
               /\ text' = ExceptPass(text)
            \/ \E t \in StrippedTexts("fitz_text") :
                 \/ /\ outA' = Out("text", t)
                    /\ text' = t
                 \/ /\ outA' = Out("raised_close", t) \* doc.close() raised, text is set
                    /\ text' = ExceptPass(t)
    /\ UNCHANGED <<mods, outB, outC, outD, tmp, ret>>
    /\ UNCHANGED <<hlvars, redvars, casevars, uivars>>

\* B) PyMuPDF blocks, sorted by rounded position, non-blank blocks joined
TierB ==
    /\ pc = "B"
    /\ pc' = "C"
    /\ IF mods.fitz /\ NeedBlocks(text)
       THEN \/ /\ outB' = Out("raised", Empty)
               /\ text' = ExceptPass(text)
            \/ \E tb \in StrippedTexts("fitz_blocks") :
                 /\ outB' = Out("text", tb)
                 /\ text' = AdoptBlocks(tb, text)
       ELSE /\ outB' = Out(IF mods.fitz THEN "skipped" ELSE "unavailable", Empty)
            /\ text' = text
    /\ UNCHANGED <<mods, outA, outC, outD, tmp, ret>>
    /\ UNCHANGED <<hlvars, redvars, casevars, uivars>>

\* C) pdfminer on a temporary file
TierC ==
    /\ pc = "C"
    /\ pc' = "D"
    /\ IF NeedPdfminer(text) /\ mods.pdfminer
       THEN \/ /\ outC' = Out("raised", Empty)      \* NamedTemporaryFile raised
               /\ tmp' = "none"
               /\ text' = ExceptPass(text)
            \/ /\ outC' = Out("raised", Empty)      \* tmp.write or pdfminer raised
               /\ tmp' = "exists"
               /\ text' = ExceptPass(text)
            \/ \E t2 \in RawTexts("pdfminer") :
                 /\ outC' = Out("text", t2)
                 /\ tmp' \in {"deleted", "unlink_failed"}
                 /\ text' = AdoptPdfminer(t2, text)
       ELSE /\ outC' = Out(IF mods.pdfminer THEN "skipped" ELSE "unavailable", Empty)
            /\ tmp' = tmp
            /\ text' = text
    /\ UNCHANGED <<mods, outA, outB, outD, ret>>
    /\ UNCHANGED <<hlvars, redvars, casevars, uivars>>

\* D) pypdf
TierD ==
    /\ pc = "D"
    /\ pc' = "ret"
    /\ IF NeedPypdf(text)
       THEN \E raised \in BOOLEAN, pages \in RawTexts("pypdf") :
              LET t3 == extract_text_with_pypdf(mods.pypdf, raised, pages) IN
              /\ ~mods.pypdf => (~raised /\ pages = Empty)
              /\ raised => pages = Empty
              /\ outD' = Out(IF ~mods.pypdf THEN "unavailable"
                             ELSE IF raised THEN "raised" ELSE "text", t3)
              /\ text' = AdoptPypdf(t3, text)
       ELSE /\ outD' = Out("skipped", Empty)
            /\ text' = text
    /\ UNCHANGED <<mods, outA, outB, outC, tmp, ret>>
    /\ UNCHANGED <<hlvars, redvars, casevars, uivars>>

\* return text.strip()
Return ==
    /\ pc = "ret"
    /\ pc' = "done"
    /\ ret' = Strip(text)
    /\ UNCHANGED <<mods, text, outA, outB, outC, outD, tmp>>
    /\ UNCHANGED <<hlvars, redvars, casevars, uivars>>

PdfIdle ==
    /\ pc = "off"
    /\ mods = [fitz |-> FALSE, pdfminer |-> FALSE, pypdf |-> FALSE]
    /\ text = Empty
    /\ outA = Pending /\ outB = Pending /\ outC = Pending /\ outD = Pending
    /\ tmp = "none"
    /\ ret = Empty

(***************************************************************************)
(* highlight_gr.  A line is a sequence of tokens: a token is one character *)
(* the code cares about or one run of characters it treats as a unit.      *)
(*   "sthanik", "rahivasi"  the two keywords (Devanagari in the source)    *)
(*   "kalam 12A", "Clause 5", "section 7"  matches of _CLAUSE (re.I)       *)
(*   "<", ">", "&"          HTML special characters of the GR text         *)
(*   "..."                  the character U+2026 inside the GR text        *)
(*   " "                    white space,  "w"  any other word              *)
(***************************************************************************)

\* def highlight_gr(text, max_lines=140)
max_lines == 140

\* most source lines of a GR text
MaxGrLines == 142

KEYWORDS == {"sthanik", "rahivasi"}
ClauseMarkers == {"kalam 12A", "Clause 5", "section 7"}

SPAN_OPEN == "<span class='hl'>"
SPAN_CLOSE == "</span>"
BR == "<br>"
BULLET == "bullet "
ELLIPSIS == "..."
PLACEHOLDER == "<em>-</em>"

\* the kinds of line a GR text is made of
GrLineKinds ==
    { << >>, <<" ">>, <<"w", " ", "w">>, <<"sthanik", " ", "w">>,
      <<"w", " ", "Clause 5", " ", "kalam 12A">>, <<"rahivasi", " ", "section 7">>,
      <<"<", "w", ">", "&">>, <<ELLIPSIS>> }

\* the lines every position of a generated text is filled with
GrBaseKinds == { <<" ">>, <<"w", " ", "w">>, <<"w", " ", "Clause 5", " ", "kalam 12A">> }

\* the positions where a generated text carries its one special line
GrSpecialAt == {1, max_lines, max_lines + 1}

\* text.splitlines() of the generated texts: n lines `base`, one `special`
GrText(n, base, special, at) ==
    [i \in 1..n |-> IF i = at THEN special ELSE base]

GrTexts ==
    { GrText(n, b, sp, at) :
        n \in 0..MaxGrLines, b \in GrBaseKinds, sp \in GrLineKinds, at \in GrSpecialAt }

\* not text.strip()
IsBlankText(lines) ==
    \A i \in 1..Len(lines) : \A j \in 1..Len(lines[i]) : lines[i][j] = " "

\* any(k in ln for k in [...]) or _CLAUSE.search(ln)
IsFlagged(ln) ==
    \E j \in 1..Len(ln) : ln[j] \in KEYWORDS \cup ClauseMarkers

\* the replacement template r"<span class='hl'>\\1</span>": in a template \\ is
\* a literal backslash, so the match is replaced by the span around the two
\* characters \1, not around group 1
ClauseRepl(m) == <<SPAN_OPEN, "\\1", SPAN_CLOSE>>

RECURSIVE ClauseSub(_)
\* _CLAUSE.sub(template, ln)
ClauseSub(ln) ==
    IF ln = << >> THEN << >>
    ELSE (IF Head(ln) \in ClauseMarkers THEN ClauseRepl(Head(ln)) ELSE <<Head(ln)>>)
         \o ClauseSub(Tail(ln))

\* the body of the loop: what is appended to `out` for one line
RenderLine(ln) ==
    IF IsFlagged(ln) THEN <<BULLET>> \o ClauseSub(ln) ELSE ln

\* a truncation test that also fires on exactly max_lines lines
TruncatedAtLimit(n) == n >= max_lines

\* len(text.splitlines())>max_lines
Truncated(n) == n > max_lines

RECURSIVE JoinFrom(_, _, _)
\* sep.join(parts[i:])
JoinFrom(sep, parts, i) ==
    IF i > Len(parts) THEN << >>
    ELSE IF i = Len(parts) THEN parts[i]
    ELSE parts[i] \o <<sep>> \o JoinFrom(sep, parts, i + 1)

highlight_gr(lines) ==
    IF IsBlankText(lines) THEN <<PLACEHOLDER>>
    ELSE LET kept == IF Len(lines) > max_lines THEN max_lines ELSE Len(lines)
             out == [i \in 1..kept |-> RenderLine(lines[i])]
                    \o (IF Truncated(Len(lines)) THEN << <<ELLIPSIS>> >> ELSE << >>)
         IN JoinFrom(BR, out, 1)

HlInit ==
    /\ hl_pc = "call"
    /\ gr \in GrTexts
    /\ hl_out = << >>

HlIdle ==
    /\ hl_pc = "off"
    /\ gr = << >>
    /\ hl_out = << >>

\* st.markdown(f"<div class='card'>{highlight_gr(gr_text)}</div>", ...)
Highlight ==
    /\ hl_pc = "call"
    /\ hl_pc' = "done"
    /\ hl_out' = highlight_gr(gr)
    /\ gr' = gr
    /\ UNCHANGED <<pdfvars, redvars, casevars, uivars>>

(***************************************************************************)
(* red.  A text is a sequence of characters; the alphabet has one          *)
(* character of every class the three patterns tell apart:                 *)
(*   "1"  a digit outside 6-9      "9"  a digit in 6-9                     *)
(*   "X"  an upper-case letter     " "  white space                        *)
(*   "-"  any other non-word character                                     *)
(***************************************************************************)

\* most tokens an input of red is made of
MaxRedTokens == 4

IsDigit(c) == c \in {"1", "9"}
IsHighDigit(c) == c = "9"
IsUpper(c) == c = "X"
IsSpace(c) == c = " "
IsWordChar(c) == IsDigit(c) \/ IsUpper(c)

\* \b just before position i of s (positions 1..Len(s)+1)
WordBoundary(s, i) ==
    LET before == i > 1 /\ IsWordChar(s[i - 1])
        after == i <= Len(s) /\ IsWordChar(s[i])
    IN before # after

\* the character classes of the three patterns: \d, [6-9] and [A-Z]
InClass(c, class) ==
    CASE class = "\\d" -> IsDigit(c)
      [] class = "[6-9]" -> IsHighDigit(c)
      [] class = "[A-Z]" -> IsUpper(c)

\* s[i..i+k-1] exists and all its characters are of the class
Run(s, i, k, class) ==
    /\ i + k - 1 <= Len(s)
    /\ \A j \in i..(i + k - 1) : InClass(s[j], class)

\* 1 when \s? takes the character at position i, else 0
OptSpace(s, i) == IF i <= Len(s) /\ IsSpace(s[i]) THEN 1 ELSE 0

\* AADHAAR = \b\d{4}\s?\d{4}\s?\d{4}\b : length of the match at i, 0 if none
AadhaarAt(s, i) ==
    IF ~(WordBoundary(s, i) /\ Run(s, i, 4, "\\d")) THEN 0
    ELSE LET j == i + 4 + OptSpace(s, i + 4) IN
         IF ~Run(s, j, 4, "\\d") THEN 0
         ELSE LET k == j + 4 + OptSpace(s, j + 4) IN
              IF Run(s, k, 4, "\\d") /\ WordBoundary(s, k + 4)
              THEN k + 4 - i ELSE 0

\* PAN = \b[A-Z]{5}\d{4}[A-Z]\b
PanAt(s, i) ==
    IF /\ WordBoundary(s, i)
       /\ Run(s, i, 5, "[A-Z]") /\ Run(s, i + 5, 4, "\\d") /\ Run(s, i + 9, 1, "[A-Z]")
       /\ WordBoundary(s, i + 10)
    THEN 10 ELSE 0

\* MOBILE = \b[6-9]\d{9}\b
MobileAt(s, i) ==
    IF /\ WordBoundary(s, i)
       /\ Run(s, i, 1, "[6-9]") /\ Run(s, i + 1, 9, "\\d")
       /\ WordBoundary(s, i + 10)
    THEN 10 ELSE 0

MatchAt(pat, s, i) ==
    CASE pat = "AADHAAR" -> AadhaarAt(s, i)
      [] pat = "PAN" -> PanAt(s, i)
      [] pat = "MOBILE" -> MobileAt(s, i)

\* a mask that keeps four digits at its end, as the PAN mask keeps 9999
AadhaarMaskLastFour ==
    <<"X","X","X","X"," ","X","X","X","X"," ","1","1","1","1">>

\* "XXXX XXXX XXXX"
AadhaarMask == <<"X","X","X","X"," ","X","X","X","X"," ","X","X","X","X">>

\* "XXXXX9999X"
PanMask == <<"X","X","X","X","X","9","9","9","9","X">>

\* "XXXXXXXXXX"
MobileMask == <<"X","X","X","X","X","X","X","X","X","X">>

RECURSIVE SubFrom(_, _, _, _)
\* pattern.sub(mask, s) from position i on: the leftmost match is replaced
\* and the scan goes on behind it
SubFrom(pat, mask, s, i) ==
    IF i > Len(s) THEN << >>
    ELSE LET n == MatchAt(pat, s, i) IN
         IF n > 0 THEN mask \o SubFrom(pat, mask, s, i + n)
         ELSE <<s[i]>> \o SubFrom(pat, mask, s, i + 1)

red(s) ==
    LET a == SubFrom("AADHAAR", AadhaarMask, s, 1)
        b == SubFrom("PAN", PanMask, a, 1)
    IN SubFrom("MOBILE", MobileMask, b, 1)

\* the pieces the inputs of red are put together from: four digits, eight
\* digits in two groups, a mobile number, a PAN, and single separators
RedTokens ==
    { <<"1","1","1","1">>,
      <<"1","1","1","1"," ","1","1","1","1"," ">>,
      <<"9","1","1","1","1","1","1","1","1","1">>,
      <<"X","X","X","X","X","9","9","9","9","X">>,
      <<"1","1">>, <<"X">>, <<" ">>, <<"-">> }

RECURSIVE Concat(_)
Concat(ts) == IF ts = << >> THEN << >> ELSE Head(ts) \o Concat(Tail(ts))

RedInputs ==
    UNION { { Concat(ts) : ts \in [1..n -> RedTokens] } : n \in 0..MaxRedTokens }

RedInit ==
    /\ red_pc = "call"
    /\ s0 \in RedInputs
    /\ s1 = << >>
    /\ s2 = << >>

RedIdle ==
    /\ red_pc = "off"
    /\ s0 = << >> /\ s1 = << >> /\ s2 = << >>

\* st.code(red(case_text[:1500]) ...): the preview is redacted
Redact ==
    /\ red_pc = "call"
    /\ red_pc' = "once"
    /\ s1' = red(s0)
    /\ UNCHANGED <<s0, s2>>
    /\ UNCHANGED <<pdfvars, hlvars, casevars, uivars>>

\* the redacted text is redacted again
RedactAgain ==
    /\ red_pc = "once"
    /\ red_pc' = "twice"
    /\ s2' = red(s1)
    /\ UNCHANGED <<s0, s1>>
    /\ UNCHANGED <<pdfvars, hlvars, casevars, uivars>>

(***************************************************************************)
(* parse_marathi_case.  A case text is text.splitlines(): a sequence of    *)
(* lines, a line a sequence of tokens.  The tokens stand for the Marathi   *)
(* words the patterns look for:                                            *)
(*   "shri", "sau."       honorifics          "N1", "N2", "V1", "T1" names *)
(*   "ra.", "ta."         residence, taluka   ","  ":"  "-"  punctuation   *)
(*   "sunavani"           hearing             "dinank", "di."  date label  *)
(*   "13/05/2025"         a date              "sakali"  time of day        *)
(*   "11", "5"            numerals            "va", "vajta"  o'clock       *)
(*   "kimi"               kilometre           "upasthit hote"  were present*)
(*   "takrar"             complaint           "takrar arj"  complaint appl.*)
(*   "shasan nirnay", "patra", "kramank"  the other citation keywords      *)
(*   "r1".."r12"          words that tell citation lines apart             *)
(*   " ", "\t"            white space         "bullet"  the character U+2022*)
(***************************************************************************)

\* d["refs"] = list(dict.fromkeys(d["refs"]))[:8]
RefCap == 8

\* most lines of a generated case text
MaxRefLines == 10

Honorifics == {"shri", "sau."}
NameWords == {"N1", "N2", "V1", "T1"}
DateLabels == {"dinank", "di."}
Dates == {"13/05/2025"}
DayTimes == {"sakali"}
Numerals == {"11", "5"}
ClockWords == {"va", "vajta"}
KmWords == {"kimi"}
\* MAR_REF_LINE
RefKeywords == {"shasan nirnay", "patra", "takrar arj", "sunavani", "kramank", "dinank"}
\* tokens in which the substring "takrar" occurs
TakrarWords == {"takrar", "takrar arj"}
WhiteSpace == {" ", "\t", "\n"}
\* ln.strip(" \n\t•-")
BulletChars == {" ", "\n", "\t", "bullet", "-"}

Min2(a, b) == IF a < b THEN a ELSE b

\* the token at position i, "" past either end
TokAt(s, i) == IF i >= 1 /\ i <= Len(s) THEN s[i] ELSE ""

RECURSIVE SkipWs(_, _)
\* \s* from position i: the first position that holds no white space
SkipWs(s, i) == IF i <= Len(s) /\ s[i] \in WhiteSpace THEN SkipWs(s, i + 1) ELSE i

\* the least element of a non-empty set of numbers, 0 for the empty set
Least(S) == IF S = {} THEN 0 ELSE CHOOSE x \in S : \A y \in S : x <= y

RECURSIVE StripLeft(_, _)
StripLeft(ln, chars) ==
    IF ln # << >> /\ Head(ln) \in chars THEN StripLeft(Tail(ln), chars) ELSE ln

RECURSIVE StripRight(_, _)
StripRight(ln, chars) ==
    IF ln # << >> /\ ln[Len(ln)] \in chars
    THEN StripRight(SubSeq(ln, 1, Len(ln) - 1), chars) ELSE ln

\* ln.strip(chars)
StripChars(ln, chars) == StripRight(StripLeft(ln, chars), chars)

\* up to the next comma: [^,]* from position i, the last position it takes
RECURSIVE UntilComma(_, _)
UntilComma(s, i) ==
    IF i <= Len(s) /\ s[i] # "," THEN UntilComma(s, i + 1) ELSE i - 1

\* MAR_CAND at position i: the positions of its groups, or << >> for no match.
\* honorific, \s*, a name word, \s+, a name up to its comma, [, ]+, "ra.",
\* a village up to its comma, and optionally a comma, "ta." and a taluka
CandAt(s, i) ==
    IF TokAt(s, i) \notin Honorifics THEN << >>
    ELSE LET g2 == SkipWs(s, i + 1)
             g3 == SkipWs(s, g2 + 1)
             e3 == UntilComma(s, g3)
             ra == SkipWs(s, e3 + 2)
             g4 == SkipWs(s, ra + 1)
             e4 == UntilComma(s, g4)
             ta == SkipWs(s, e4 + 2)
             g5 == SkipWs(s, ta + 1)
             e5 == UntilComma(s, g5)
         IN IF /\ TokAt(s, g2) \in NameWords
               /\ g3 > g2 + 1 /\ TokAt(s, g3) \in NameWords
               /\ TokAt(s, e3 + 1) = ","
               /\ TokAt(s, ra) = "ra."
               /\ TokAt(s, g4) \in NameWords
            THEN IF TokAt(s, e4 + 1) = "," /\ TokAt(s, ta) = "ta."
                    /\ TokAt(s, g5) \in NameWords
                 THEN <<g2, g3, e3, g4, e4, g5, e5>>
                 ELSE <<g2, g3, e3, g4, e4, 0, 0>>
            ELSE << >>

\* MAR_HEAR at position i: the position of the date, 0 for no match
HearAt(s, i) ==
    IF TokAt(s, i) # "sunavani" THEN 0
    ELSE LET j == SkipWs(s, i + 1)
             k == SkipWs(s, j + 1)
             d == IF TokAt(s, k) \in {":", "-"} THEN SkipWs(s, k + 1) ELSE k
         IN IF TokAt(s, j) \in DateLabels /\ TokAt(s, d) \in Dates THEN d ELSE 0

\* MAR_HEAR_TIME at position i: the position of the numeral, 0 for no match
HearTimeAt(s, i) ==
    IF TokAt(s, i) \notin DayTimes THEN 0
    ELSE LET j == SkipWs(s, i + 1)
             k == SkipWs(s, j + 1)
         IN IF TokAt(s, j) \in Numerals /\ TokAt(s, k) \in ClockWords THEN j ELSE 0

\* MAR_DIST at position i: the position of the unit, 0 for no match
DistAt(s, i) ==
    IF TokAt(s, i) \notin Numerals THEN 0
    ELSE LET j == SkipWs(s, i + 1)
         IN IF TokAt(s, j) \in KmWords THEN j ELSE 0

\* the lines of the block after "upasthit hote" up to the next "takrar":
\* text.split(phrase,1)[-1].split("takrar",1)[0].splitlines()
RECURSIVE SplitLines(_, _)
SplitLines(s, cur) ==
    IF s = << >> THEN (IF cur = << >> THEN << >> ELSE <<cur>>)
    ELSE IF Head(s) = "\n" THEN <<cur>> \o SplitLines(Tail(s), << >>)
    ELSE SplitLines(Tail(s), Append(cur, Head(s)))

AttendeeBlock(s) ==
    LET p == Least({i \in 1..Len(s) : s[i] = "upasthit hote"})
        q == Least({i \in (p + 1)..Len(s) : s[i] \in TakrarWords})
        last == IF q = 0 THEN Len(s) ELSE q - 1
    IN SubSeq(s, p + 1, last)

\* d["attendees"]
AttendeesOf(s) ==
    IF \A i \in 1..Len(s) : s[i] # "upasthit hote" THEN << >>
    ELSE LET blockLines == SplitLines(AttendeeBlock(s), << >>)
             nonBlank == SelectSeq(blockLines, LAMBDA ln : StripChars(ln, WhiteSpace) # << >>)
             lines == [i \in 1..Len(nonBlank) |-> StripChars(nonBlank[i], BulletChars)]
         IN SelectSeq(lines, LAMBDA ln : \E j \in 1..Len(ln) : ln[j] \in Honorifics)

\* MAR_REF_LINE.search(ln)
IsRefLine(ln) == \E j \in 1..Len(ln) : ln[j] \in RefKeywords

\* the loop over text.splitlines(): d["refs"].append(ln.strip())
CollectRefs(lines) ==
    LET hits == SelectSeq(lines, IsRefLine)
    IN [i \in 1..Len(hits) |-> StripChars(hits[i], WhiteSpace)]

RECURSIVE DedupeFrom(_, _, _)
\* list(dict.fromkeys(xs)): the first occurrence of every element, in order
DedupeFrom(xs, i, acc) ==
    IF i > Len(xs) THEN acc
    ELSE IF \E j \in 1..Len(acc) : acc[j] = xs[i] THEN DedupeFrom(xs, i + 1, acc)
    ELSE DedupeFrom(xs, i + 1, Append(acc, xs[i]))

Dedupe(xs) == DedupeFrom(xs, 1, << >>)

\* xs[:k]
Take(xs, k) == SubSeq(xs, 1, Min2(k, Len(xs)))

\* cutting to 8 before the duplicates are dropped
TruncateThenDedupe(collected) == Dedupe(Take(collected, RefCap))

\* list(dict.fromkeys(d["refs"]))[:8]
DedupeThenTruncate(collected) == Take(Dedupe(collected), RefCap)

DefaultFacts ==
    [complainant_name |-> << >>, complainant_village |-> << >>,
     complainant_taluka |-> << >>, hearing_date |-> << >>, hearing_time |-> << >>,
     distance_km |-> << >>, attendees |-> << >>, refs |-> << >>]

parse_marathi_case(lines) ==
    LET s == JoinFrom("\n", lines, 1)
        m == Least({i \in 1..Len(s) : CandAt(s, i) # << >>})
        g == IF m = 0 THEN << >> ELSE CandAt(s, m)
        mh == Least({i \in 1..Len(s) : HearAt(s, i) # 0})
        mht == Least({i \in 1..Len(s) : HearTimeAt(s, i) # 0})
        md == Least({i \in 1..Len(s) : DistAt(s, i) # 0})
    IN [complainant_name |->
            IF m = 0 THEN << >>
            ELSE StripChars(<<s[g[1]], " ">> \o SubSeq(s, g[2], g[3]), WhiteSpace),
        complainant_village |->
            IF m = 0 THEN << >> ELSE StripChars(SubSeq(s, g[4], g[5]), WhiteSpace),
        complainant_taluka |->
            IF m = 0 \/ g[6] = 0 THEN << >>
            ELSE StripChars(SubSeq(s, g[6], g[7]), WhiteSpace),
        hearing_date |-> IF mh = 0 THEN << >> ELSE <<s[HearAt(s, mh)]>>,
        \* f"{group(2)} {group(4)}".replace("va", "vajta"); group 4 is always "va"
        hearing_time |-> IF mht = 0 THEN << >> ELSE <<s[HearTimeAt(s, mht)], " ", "vajta">>,
        distance_km |-> IF md = 0 THEN << >> ELSE SubSeq(s, md, DistAt(s, md)),
        attendees |-> AttendeesOf(s),
        refs |-> DedupeThenTruncate(CollectRefs(lines))]

(***************************************************************************)
(* extract_any and the texts of the case runs.                             *)
(***************************************************************************)

\* the suffix of file.name as typed, without its dot ("" for a name that has
\* no dot or for no name)
Suffixes ==
    {"txt", "TXT", "pdf", "Pdf", "png", "jpg", "JPG", "jpeg", "webp", "tif",
     "tiff", "TIFF", "docx", "gif", ""}

\* str.lower() on a suffix
Lower(ext) ==
    CASE ext = "TXT" -> "txt"
      [] ext = "Pdf" -> "pdf"
      [] ext = "JPG" -> "jpg"
      [] ext = "TIFF" -> "tiff"
      [] OTHER -> ext

\* the tuple of name.endswith((...)) for images
ImageSuffixes == {"png", "jpg", "jpeg", "webp", "tif", "tiff"}

\* a complete small case document
SampleCase ==
    << <<"shri", " ", "N1", " ", "N2", ",", " ", "ra.", " ", "V1", ",", " ", "ta.", " ", "T1", ",">>,
       <<"sunavani", " ", "dinank", ":", " ", "13/05/2025", " ", "sakali", " ", "11", " ", "vajta">>,
       <<"w", " ", "5", " ", "kimi">>,
       <<"upasthit hote">>,
       <<"bullet", " ", "shri", " ", "N2">>,
       <<"-", " ", "w">>,
       <<"takrar arj", " ", "dinank", " ", "r1">> >>

\* a text without any pattern of the parser
PlainCase == << <<"w", " ", "w">>, << >>, <<"w">> >>

\* what the bytes of an upload can hold
Bodies == { << >>, PlainCase, SampleCase }

\* read_txt: the first encoding of the list that decodes gives the text, and
\* bytes no encoding decodes come back through latin-1 with "ignore"
read_txt(data) ==
    IF data.enc \in {"utf-8", "utf-8-sig", "utf-16", "utf-16le", "utf-16be"}
    THEN data.body
    ELSE << <<"w">> >>

\* the value a call returned, or the exception that escaped it
Returned(v) == [exc |-> FALSE, val |-> v]
Escaped == [exc |-> TRUE, val |-> << >>]

\* easy_ocr_image without its try/except
easy_ocr_image_unguarded(backend, data) ==
    IF backend = "missing" THEN Returned(<< >>)
    ELSE IF backend = "raises" THEN Escaped
    ELSE Returned(data.body)

\* easy_ocr_image: "" without the backend, "" when anything raises
easy_ocr_image(backend, data) ==
    IF backend = "missing" THEN Returned(<< >>)
    ELSE IF backend = "raises" THEN Returned(<< >>)
    ELSE Returned(data.body)

\* extract_any; pdf_text is what extract_text_from_pdf returns for the bytes
extract_any(f, backend, pdf_text) ==
    LET name == Lower(f.ext) IN
    IF name = "txt" THEN Returned(read_txt(f))
    ELSE IF name = "pdf" THEN Returned(pdf_text)
    ELSE IF name \in ImageSuffixes THEN easy_ocr_image(backend, f)
    ELSE Returned(<< >>)

\* the words that tell the generated citation lines apart
RefIds == <<"r1", "r2", "r3", "r4", "r5", "r6", "r7", "r8", "r9", "r10", "r11", "r12">>
RefWords == <<"dinank", "patra", "kramank", "sunavani", "shasan nirnay", "takrar arj">>

\* the i-th citation line
RefLine(i) == <<RefWords[((i - 1) % 6) + 1], " ", RefIds[i]>>

\* n lines, all different citation lines, except: line `other` holds no
\* keyword, line `dup` repeats line 1 and line `pad` repeats line 2 with
\* white space around it
RefText(n, dup, pad, other) ==
    [i \in 1..n |->
        IF i = other THEN <<"w", " ", "w">>
        ELSE IF i = dup /\ i > 1 THEN RefLine(1)
        ELSE IF i = pad /\ i > 2 THEN <<" ">> \o RefLine(2) \o <<"\t">>
        ELSE RefLine(i)]

RefTexts ==
    UNION { { RefText(n, d, q, o) : d \in 0..n, q \in 0..n, o \in 0..n } :
            n \in 0..MaxRefLines }

CaseIdle ==
    /\ case_pc = "off"
    /\ file = [ext |-> "", enc |-> "utf-8", body |-> << >>]
    /\ ocr = "missing"
    /\ case_text = << >>
    /\ escaped = FALSE
    /\ facts = DefaultFacts

\* a file was uploaded as the case document
UploadInit ==
    /\ case_pc = "uploaded"
    /\ file \in [ext : Suffixes, enc : {"utf-8", "undecodable"}, body : Bodies]
    /\ ocr \in {"missing", "raises", "ok"}
    /\ case_text = << >>
    /\ escaped = FALSE
    /\ facts = DefaultFacts

\* the case text was pasted: case_txt_fallback.strip()
PastedInit ==
    /\ case_pc = "extracted"
    /\ file = [ext |-> "", enc |-> "utf-8", body |-> << >>]
    /\ ocr = "missing"
    /\ case_text \in RefTexts \cup Bodies
    /\ escaped = FALSE
    /\ facts = DefaultFacts

\* case_text = (... or extract_any(case_up) or "").strip()
ExtractAny ==
    /\ case_pc = "uploaded"
    /\ \E pdf_text \in Bodies :
         LET r == extract_any(file, ocr, pdf_text) IN
         /\ (Lower(file.ext) # "pdf") => pdf_text = << >>
         /\ escaped' = r.exc
         /\ case_text' = r.val
         /\ case_pc' = IF r.exc THEN "failed" ELSE "extracted"
    /\ UNCHANGED <<file, ocr, facts>>
    /\ UNCHANGED <<pdfvars, hlvars, redvars, uivars>>

\* facts = parse_marathi_case(case_text)
ParseCase ==
    /\ case_pc = "extracted"
    /\ case_pc' = "parsed"
    /\ facts' = parse_marathi_case(case_text)
    /\ UNCHANGED <<file, ocr, case_text, escaped>>
    /\ UNCHANGED <<pdfvars, hlvars, redvars, uivars>>

(***************************************************************************)
(* The script runs of the UI.  Every interaction runs the script from top  *)
(* to bottom: the widgets are read, the Analyze tab acts when its button   *)
(* was pressed, then the Order tab acts.  Only st.session_state outlives a *)
(* run.  The date of the day that the orders print is left out.            *)
(***************************************************************************)

\* [:10] of the references typed into the Documents tab
RefsLimit == 10

\* no file in a file_uploader: None
NoFile == [present |-> FALSE, ext |-> "", enc |-> "utf-8", body |-> << >>]

\* an uploaded file
Upload(ext, body) == [present |-> TRUE, ext |-> ext, enc |-> "utf-8", body |-> body]

\* a text_area value: white space around a stripped body
Typed(pad, body) == [pad |-> pad, body |-> body]

\* s.strip() of a text_area value
PastedStrip(pasted) == pasted.body

\* GR texts with and without both keywords of the clause hint
LocalGr == << <<"sthanik", " ", "rahivasi">>, <<"Clause 5">> >>
OtherGr == << <<"w", " ", "w">> >>

CaseUploads == {NoFile, Upload("txt", SampleCase)}
CasePasted == {Typed(FALSE, << >>), Typed(TRUE, << >>), Typed(TRUE, PlainCase)}
GrUploads == {NoFile, Upload("TXT", LocalGr)}
GrPasted == {Typed(FALSE, << >>), Typed(TRUE, << >>), Typed(FALSE, OtherGr)}

\* the Case Intake widgets, the typed references and the OCR backend
Intakes ==
    { [case_id |-> "ZP/1", officer |-> "CEO", hearing_d |-> "13/05/2025",
       subject_p |-> "Anganwadi", subject_f |-> "S", easyocr |-> "missing",
       refs_text |-> << <<" ", "patra", " ", "r1">>, <<" ">>, <<"dinank", " ", "r2">> >>],
      [case_id |-> "ZP/2", officer |-> "CEO", hearing_d |-> "14/05/2025",
       subject_p |-> "Anganwadi", subject_f |-> "", easyocr |-> "ok",
       refs_text |-> << >>] }

\* the widgets of one script run
Widgets(intake, case_up, case_txt, gr_up, gr_txt) ==
    [case_id |-> intake.case_id, officer |-> intake.officer,
     hearing_d |-> intake.hearing_d, subject_p |-> intake.subject_p,
     subject_f |-> intake.subject_f, easyocr |-> intake.easyocr,
     refs_text |-> intake.refs_text,
     case_up |-> case_up, case_txt_fallback |-> case_txt,
     gr_up |-> gr_up, gr_txt_fallback |-> gr_txt]

\* what the widgets of one script run can hold
WidgetStates ==
    { Widgets(i, cu, ct, gu, gt) :
        i \in Intakes, cu \in CaseUploads, ct \in CasePasted,
        gu \in GrUploads, gt \in GrPasted }

\* a fallback that counts any typed character, white space included
HasInputUnstripped(up, pasted) == up.present \/ pasted.pad \/ pasted.body # << >>

\* case_up or case_txt_fallback.strip(), and the same for the GR
HasInput(up, pasted) == up.present \/ PastedStrip(pasted) # << >>

\* (fallback.strip() or extract_any(up) or "").strip()
InputText(up, pasted, backend) ==
    IF PastedStrip(pasted) # << >> THEN PastedStrip(pasted)
    ELSE IF up.present THEN extract_any(up, backend, << >>).val
    ELSE << >>

\* subject = subject_f.strip() or subject_p
Subject(w) == IF w.subject_f # "" THEN w.subject_f ELSE w.subject_p

\* [ln.strip() for ln in refs_text.splitlines() if ln.strip()][:10]
TypedRefs(lines) ==
    LET kept == SelectSeq(lines, LAMBDA ln : StripChars(ln, WhiteSpace) # << >>)
    IN Take([i \in 1..Len(kept) |-> StripChars(kept[i], WhiteSpace)], RefsLimit)

\* the four values a Run Analysis stores
Analysis(w) ==
    [decision |-> [case_id |-> w.case_id, subject |-> Subject(w),
                   refs |-> TypedRefs(w.refs_text)],
     meta |-> [officer |-> w.officer, hearing_date |-> w.hearing_d],
     facts |-> parse_marathi_case(InputText(w.case_up, w.case_txt_fallback, w.easyocr)),
     grtext |-> InputText(w.gr_up, w.gr_txt_fallback, w.easyocr)]

NoAnalysis ==
    [decision |-> [case_id |-> "", subject |-> "", refs |-> << >>],
     meta |-> [officer |-> "", hearing_date |-> ""],
     facts |-> DefaultFacts,
     grtext |-> << >>]

AnalysisKeys == {"decision", "meta", "facts", "grtext"}

\* st.session_state with none of the four keys
EmptySession == [keys |-> {}, entries |-> NoAnalysis]

\* the four assignments st.session_state[...] = ...
Store(a) == [keys |-> AnalysisKeys, entries |-> a]

\* "decision" not in st.session_state
AnalyzeFirst(ss) == "decision" \notin ss.keys

\* x or default, for the strings and lists of the orders
OrElse(x, default) == IF x = << >> THEN default ELSE x

DASH == <<"-">>

\* order_marathi: the values it prints
order_marathi(meta, decision, facts_, gr_text) ==
    [officer |-> meta.officer, case_id |-> decision.case_id, subject |-> decision.subject,
     refs |-> OrElse(OrElse(decision.refs, facts_.refs), <<DASH>>),
     comp |-> OrElse(facts_.complainant_name, DASH),
     village |-> OrElse(facts_.complainant_village, DASH),
     taluka |-> OrElse(facts_.complainant_taluka, DASH),
     hdate |-> OrElse(facts_.hearing_date, <<meta.hearing_date>>),
     htime |-> OrElse(facts_.hearing_time, DASH),
     dist |-> OrElse(facts_.distance_km, DASH),
     attendees |-> OrElse(facts_.attendees, <<DASH>>),
     local_hint |-> \A k \in KEYWORDS : \E i \in 1..Len(gr_text) :
                        \E j \in 1..Len(gr_text[i]) : gr_text[i][j] = k]

\* order_english: the values it prints
order_english(meta, decision, facts_) ==
    [officer |-> meta.officer, case_id |-> decision.case_id, subject |-> decision.subject,
     comp |-> OrElse(facts_.complainant_name, <<"Complainant">>),
     village |-> OrElse(facts_.complainant_village, <<"village">>),
     taluka |-> OrElse(facts_.complainant_taluka, <<"taluka">>)]

\* the Order tab showed st.info("Run Analyze first.") and built nothing
NoOrders ==
    [built |-> FALSE,
     mr |-> order_marathi(NoAnalysis.meta, NoAnalysis.decision, DefaultFacts, << >>),
     en |-> order_english(NoAnalysis.meta, NoAnalysis.decision, DefaultFacts)]

\* the Order tab on the session state it finds
OrderTab(ss) ==
    IF AnalyzeFirst(ss) THEN NoOrders
    ELSE LET decision == ss.entries.decision
             meta == ss.entries.meta
             facts_ == IF "facts" \in ss.keys THEN ss.entries.facts ELSE DefaultFacts
             gr_text == IF "grtext" \in ss.keys THEN ss.entries.grtext ELSE << >>
         IN [built |-> TRUE,
             mr |-> order_marathi(meta, decision, facts_, gr_text),
             en |-> order_english(meta, decision, facts_)]

\* the Analyze tab with its button pressed: the notice and the session state
AnalyzeTab(w, ss) ==
    IF ~HasInput(w.case_up, w.case_txt_fallback)
    THEN [notice |-> "error_case", session |-> ss]
    ELSE IF ~HasInput(w.gr_up, w.gr_txt_fallback)
    THEN [notice |-> "error_gr", session |-> ss]
    ELSE [notice |-> "success", session |-> Store(Analysis(w))]

\* the first load of the page: no file, nothing typed, nothing stored
UiInit ==
    /\ widgets \in {w \in WidgetStates :
                      /\ w.case_id = "ZP/1"
                      /\ ~w.case_up.present /\ w.case_txt_fallback = Typed(FALSE, << >>)
                      /\ ~w.gr_up.present /\ w.gr_txt_fallback = Typed(FALSE, << >>)}
    /\ session = EmptySession
    /\ notice = "none"
    /\ orders = NoOrders
    /\ last_ok = [any |-> FALSE, analysis |-> NoAnalysis]

\* a script run after any interaction other than the Run Analysis button
Rerun ==
    /\ \E w \in WidgetStates : widgets' = w
    /\ notice' = "none"
    /\ session' = session
    /\ orders' = OrderTab(session')
    /\ last_ok' = last_ok
    /\ UNCHANGED <<pdfvars, hlvars, redvars, casevars>>

\* a script run after the Run Analysis button was pressed
RunAnalysis ==
    /\ \E w \in WidgetStates : widgets' = w
    /\ LET r == AnalyzeTab(widgets', session) IN
       /\ notice' = r.notice
       /\ session' = r.session
       /\ last_ok' = IF r.notice = "success"
                     THEN [any |-> TRUE, analysis |-> Analysis(widgets')]
                     ELSE last_ok
    /\ orders' = OrderTab(session')
    /\ UNCHANGED <<pdfvars, hlvars, redvars, casevars>>

(***************************************************************************)
(* Specifications: one per entry point.                                    *)
(***************************************************************************)

Init == PdfInit /\ HlIdle /\ RedIdle /\ CaseIdle /\ UiInit

Next == TierA \/ TierB \/ TierC \/ TierD \/ Return

\* one call of extract_text_from_pdf
Spec == Init /\ [][Next]_vars

HlNext == Highlight

\* one call of highlight_gr
HighlightInit == PdfIdle /\ HlInit /\ RedIdle /\ CaseIdle /\ UiInit

SpecHighlight == HighlightInit /\ [][HlNext]_vars

RedactorInit == PdfIdle /\ HlIdle /\ RedInit /\ CaseIdle /\ UiInit

RedNext == Redact \/ RedactAgain

\* red applied to a text, and again to its own result
SpecRed == RedactorInit /\ [][RedNext]_vars

AnyInit == PdfIdle /\ HlIdle /\ RedIdle /\ UploadInit /\ UiInit

AnyNext == ExtractAny \/ ParseCase

\* an uploaded case document: extract_any, then parse_marathi_case
SpecAny == AnyInit /\ [][AnyNext]_vars

ParseInit == PdfIdle /\ HlIdle /\ RedIdle /\ PastedInit /\ UiInit

ParseNext == ParseCase

\* a pasted case text: parse_marathi_case
SpecParse == ParseInit /\ [][ParseNext]_vars

SessionInit == PdfIdle /\ HlIdle /\ RedIdle /\ CaseIdle /\ UiInit

SessionNext == Rerun \/ RunAnalysis

\* one browser session: any sequence of script runs
SpecSession == SessionInit /\ [][SessionNext]_vars

(***************************************************************************)
(* Claims about extract_text_from_pdf.                                     *)
(***************************************************************************)

\* the tiers in their order, and what counts as a tier that gave no text
Failed == {"raised", "unavailable"}
PdfPcs == {"off", "A", "B", "C", "D", "ret", "done"}

\* C1 (as stated): when the primary text is under 60 characters without
\* Devanagari and the block-mode text has Devanagari, the call returns the
\* block-mode text whatever pdfminer and pypdf do.
C1_ReturnsBlockText ==
    (/\ pc = "done"
     /\ outA.kind = "text" /\ TLen(outA.t) < BlockRetryLen /\ ~DEVN(outA.t)
     /\ outB.kind = "text" /\ DEVN(outB.t))
    => ret = outB.t

\* C2 (as stated): once the temporary file of the pdfminer tier was created,
\* it is deleted, or its deletion was attempted, when the call returns, on
\* the success path and on the failure path.
C2_TempFileRemoved ==
    (pc = "done" /\ tmp # "none") => tmp \in {"deleted", "unlink_failed"}

\* C3 (as stated): a tier that is unavailable or raises leaves the best text
\* unchanged, and the call returns the empty string when every tier fails.
C3_FailedTierIsEmpty ==
    /\ (pc = "B" /\ outA.kind \in Failed \cup {"raised_close"}) => text = Empty
    /\ (/\ pc = "done"
        /\ outA.kind \in Failed \cup {"raised_close"}
        /\ outB.kind \in Failed
        /\ outC.kind \in Failed
        /\ outD.kind \in Failed) => ret = Empty

\* what one step of the call may do to the best text when its tier fails
C3_Step ==
    /\ pc \in PdfPcs /\ pc' \in PdfPcs
    \* the tiers follow each other whatever the outcome of each
    /\ (pc = "A") => pc' = "B"
    /\ (pc = "B") => pc' = "C"
    /\ (pc = "C") => pc' = "D"
    /\ (pc = "D") => pc' = "ret"
    /\ (pc = "ret") => pc' = "done"
    \* a tier that fails before it has its text leaves the best text alone
    /\ (pc = "A" /\ outA'.kind \in Failed) => text' = text
    /\ (pc = "A" /\ outA'.kind = "raised_close") => text' = outA'.t
    /\ (pc = "B" /\ outB'.kind \in Failed) => text' = text
    /\ (pc = "C" /\ outC'.kind \in Failed) => text' = text
    /\ (pc = "D" /\ outD'.kind \in Failed) => text' = text
    \* a later tier is attempted exactly when its guard holds
    /\ (pc = "B") => ((outB'.kind \in {"raised", "text"}) <=> (mods.fitz /\ NeedBlocks(text)))
    /\ (pc = "C") => ((outC'.kind \in {"raised", "text"}) <=> (mods.pdfminer /\ NeedPdfminer(text)))
    /\ (pc = "D") => ((outD'.kind # "skipped") <=> NeedPypdf(text))
    \* the call returns a stripped string, empty when no tier got any text
    /\ (pc = "ret") =>
          /\ ret' = Strip(text) /\ ret'.ws = 0
          /\ (/\ outA.kind \in Failed
              /\ outB.kind \in Failed \cup {"skipped"}
              /\ outC.kind \in Failed \cup {"skipped"}
              /\ outD.kind \in Failed) => ret' = Empty

\* C3 (amended): no failure is propagated: every tier hands over to the next
\* one, a tier that is unavailable or raises before it has produced its text
\* leaves the best text unchanged (the primary tier raising only in
\* doc.close() keeps the text it had already extracted), every later tier
\* whose guard holds is attempted, and the call returns a stripped string,
\* empty when no tier produced a text.
C3_FailureIsolated == [][C3_Step]_vars

\* C3 witness: tiers A and B raised, tier C was still attempted and its text
\* is what the call returned.
C3_Witness ==
    /\ pc = "done"
    /\ outA.kind = "raised" /\ outB.kind = "raised"
    /\ outC.kind = "text" /\ outD.kind = "raised"
    /\ ret # Empty /\ ret = Strip(outC.t)

\* C4 (as stated): once the best text contains a Devanagari character, no
\* later tier replaces it with a text that contains none.
C4_DevanagariKept == [][DEVN(text) => DEVN(text')]_vars

(***************************************************************************)
(* Claims about highlight_gr.                                              *)
(***************************************************************************)

RECURSIVE SplitAt(_, _, _)
\* s.split(sep), with `cur` the segment being read
SplitAt(s, sep, cur) ==
    IF s = << >> THEN <<cur>>
    ELSE IF Head(s) = sep THEN <<cur>> \o SplitAt(Tail(s), sep, << >>)
    ELSE SplitAt(Tail(s), sep, Append(cur, Head(s)))

\* an output line without its span tags and without its leading bullet
Unwrap(seg) ==
    LET body == IF seg # << >> /\ Head(seg) = BULLET THEN Tail(seg) ELSE seg
    IN SelectSeq(body, LAMBDA tok : tok \notin {SPAN_OPEN, SPAN_CLOSE})

\* how often a token occurs in a token sequence
Count(s, tok) == Cardinality({j \in 1..Len(s) : s[j] = tok})

\* the number of U+2026 characters in the first k source lines
SrcEllipses(k) ==
    Cardinality({i \in 1..k : \E j \in 1..Len(gr[i]) : gr[i][j] = ELLIPSIS})

\* C5 (as stated): for every flagged line the clause-marker matches are only
\* wrapped: without the span tags and the bullet the output line is the input
\* line.
C5_MarkersKept ==
    (hl_pc = "done" /\ ~IsBlankText(gr)) =>
        LET segs == SplitAt(hl_out, BR, << >>) IN
        \A i \in 1..Len(gr) :
            (i <= max_lines /\ IsFlagged(gr[i])) => Unwrap(segs[i]) = gr[i]

\* the truncation markers of the output: its U+2026 characters that are not
\* characters of the first k source lines
Markers(k) == Count(hl_out, ELLIPSIS) - SrcEllipses(k)

\* C6 (as stated): N <= 140 lines give no truncation marker, N > 140 lines
\* give exactly one, placed last after exactly 140 rendered lines, and empty
\* text gives the placeholder.
C6_TruncationMarker ==
    hl_pc = "done" =>
        /\ Len(gr) <= max_lines => Markers(Len(gr)) = 0
        /\ Len(gr) > max_lines =>
              /\ Markers(max_lines) = 1
              /\ hl_out[Len(hl_out)] = ELLIPSIS
              /\ Count(hl_out, BR) = max_lines
        /\ gr = << >> => hl_out = <<PLACEHOLDER>>

\* C6 (amended): text that is empty or only white space gives the
\* placeholder, whatever its number of lines; for any other text with N
\* source lines, N <= 140 gives N rendered lines and no truncation marker,
\* N > 140 gives exactly 140 rendered lines followed by exactly one
\* truncation marker, placed last.
C6_TruncationMarkerNonBlank ==
    hl_pc = "done" =>
        /\ IsBlankText(gr) => hl_out = <<PLACEHOLDER>>
        /\ (~IsBlankText(gr) /\ Len(gr) <= max_lines) =>
              /\ Count(hl_out, BR) = Len(gr) - 1
              /\ Markers(Len(gr)) = 0
        /\ (~IsBlankText(gr) /\ Len(gr) > max_lines) =>
              /\ Count(hl_out, BR) = max_lines
              /\ hl_out[Len(hl_out)] = ELLIPSIS
              /\ hl_out[Len(hl_out) - 1] = BR
              /\ Markers(max_lines) = 1

\* C6 witness: a text of more than 140 lines, not blank, was rendered and
\* ends with the marker.
C6_Witness ==
    /\ hl_pc = "done"
    /\ Len(gr) > max_lines /\ ~IsBlankText(gr)
    /\ hl_out[Len(hl_out)] = ELLIPSIS
    /\ Count(hl_out, BR) = max_lines

\* C7 (as stated): no '<', '>' or '&' of the GR text reaches the output
\* unescaped.
C7_HtmlSafe ==
    hl_pc = "done" => \A j \in 1..Len(hl_out) : hl_out[j] \notin {"<", ">", "&"}

(***************************************************************************)
(* Claims about red.                                                       *)
(***************************************************************************)

\* C9: red is idempotent: the second pass changes nothing, so no mask,
\* alone or joined to the text around it, gives a match that changes the
\* text.
C9_RedIdempotent == red_pc = "twice" => s2 = s1

\* C9 witness: the first pass masked an Aadhaar number that had text after
\* it, and the second pass has run.
C9_Witness ==
    /\ red_pc = "twice"
    /\ s1 # s0
    /\ \E i \in 1..Len(s0) : AadhaarAt(s0, i) > 0 /\ i + AadhaarAt(s0, i) <= Len(s0)

(***************************************************************************)
(* Claims about parse_marathi_case and extract_any.                        *)
(***************************************************************************)

\* the lines of the case text that hold a citation keyword, as they stand
MatchingLines == SelectSeq(case_text, IsRefLine)

\* the same lines without the white space around them
StrippedLines == [i \in 1..Len(MatchingLines) |-> StripChars(MatchingLines[i], WhiteSpace)]

\* the set of elements of a sequence
Range(xs) == {xs[i] : i \in 1..Len(xs)}

\* xs has no element twice
NoDuplicates(xs) == \A i, j \in 1..Len(xs) : i # j => xs[i] # xs[j]

\* ys is the start of the first occurrences of xs, in the order of xs
FirstOccurrences(ys, xs) ==
    LET firsts == {i \in 1..Len(xs) : \A j \in 1..(i - 1) : xs[j] # xs[i]} IN
    \A k \in 1..Len(ys) :
        \E i \in firsts : ys[k] = xs[i] /\ Cardinality({j \in firsts : j < i}) = k - 1

\* C8 (as stated): refs is the distinct citation-keyword lines in
\* first-occurrence order, compared by exact string equality, cut to 8: no
\* duplicates and min(8, number of distinct matching lines) entries.
C8_RefsDistinctLines ==
    case_pc = "parsed" =>
        /\ NoDuplicates(facts.refs)
        /\ FirstOccurrences(facts.refs, MatchingLines)
        /\ Len(facts.refs) = Min2(RefCap, Cardinality(Range(MatchingLines)))

\* C8 (amended): refs is the distinct citation-keyword lines, each without
\* the white space around it, in first-occurrence order, compared by exact
\* equality of the stripped strings before the cut to 8: no duplicates and
\* min(8, number of distinct stripped matching lines) entries, so duplicates
\* among the early lines never reduce the count.
C8_RefsDistinctStripped ==
    case_pc = "parsed" =>
        /\ NoDuplicates(facts.refs)
        /\ FirstOccurrences(facts.refs, StrippedLines)
        /\ Len(facts.refs) = Min2(RefCap, Cardinality(Range(StrippedLines)))

\* C8 witness: more than 8 distinct citation lines with a duplicate among
\* the first 8 of them were parsed into 8 entries.
C8_Witness ==
    /\ case_pc = "parsed"
    /\ Cardinality(Range(StrippedLines)) > RefCap
    /\ ~NoDuplicates(Take(StrippedLines, RefCap))
    /\ Len(facts.refs) = RefCap

\* the file of the run has a suffix extract_any does not route
Unsupported == Lower(file.ext) \notin {"txt", "pdf", "png", "jpg", "jpeg", "webp", "tif", "tiff"}

\* the file of the run is an image and the OCR backend is missing or fails
ImageWithoutOcr ==
    /\ Lower(file.ext) \in {"png", "jpg", "jpeg", "webp", "tif", "tiff"}
    /\ ocr \in {"missing", "raises"}

\* C10: for an unsupported suffix, and for an image suffix when the OCR
\* backend is missing or fails, extract_any raises nothing and returns the
\* empty string, and parse_marathi_case of that text is the record with
\* every string field empty and no attendees and no refs.
C10_DegradesToDefaults ==
    (Unsupported \/ ImageWithoutOcr) =>
        /\ ~escaped /\ case_pc # "failed"
        /\ case_text = << >>
        /\ case_pc = "parsed" =>
              /\ facts.complainant_name = << >> /\ facts.complainant_village = << >>
              /\ facts.complainant_taluka = << >> /\ facts.hearing_date = << >>
              /\ facts.hearing_time = << >> /\ facts.distance_km = << >>
              /\ facts.attendees = << >> /\ facts.refs = << >>

\* C10 witness: a .TIFF upload whose bytes hold a full case document, with
\* no OCR backend, was extracted and parsed.
C10_Witness ==
    /\ case_pc = "parsed"
    /\ file.ext = "TIFF" /\ file.body = SampleCase /\ ocr = "missing"
    /\ case_text = << >> /\ facts = DefaultFacts

(***************************************************************************)
(* Claims about the order of the tiers of extract_text_from_pdf.          *)
(***************************************************************************)

\* the backend of a tier was called (tier D calls extract_text_with_pypdf
\* before it is known whether pypdf can be imported)
Attempted(o) == o.kind \in {"raised", "raised_close", "text"}
AttemptedPypdf(o) == o.kind \in {"raised", "text", "unavailable"}

\* what one step of the call may do to the outcomes of the tiers
C11_Step ==
    \* at most once: an outcome, once set, stays, failure or not
    /\ (outA # Pending) => outA' = outA
    /\ (outB # Pending) => outB' = outB
    /\ (outC # Pending) => outC' = outC
    /\ (outD # Pending) => outD' = outD
    \* fixed order: a tier gets its outcome after all earlier ones and
    \* before all later ones
    /\ (outA' # outA) => (outB' = Pending /\ outC' = Pending /\ outD' = Pending)
    /\ (outB' # outB) => (outA # Pending /\ outC' = Pending /\ outD' = Pending)
    /\ (outC' # outC) => (outA # Pending /\ outB # Pending /\ outD' = Pending)
    /\ (outD' # outD) => (outA # Pending /\ outB # Pending /\ outC # Pending)
    \* the guards: the best text before tier B is the primary text
    /\ (outB' # outB /\ Attempted(outB')) =>
          /\ text = outA.t
          /\ ~outA.t.devn \/ outA.t.n + outA.t.ws < BlockRetryLen
    /\ (outC' # outC /\ Attempted(outC')) => ~text.devn
    /\ (outD' # outD /\ AttemptedPypdf(outD')) => text.n + text.ws < PypdfRetryLen
    \* the call returns only after every tier had its turn
    /\ (pc' = "done") => (outA' # Pending /\ outB' # Pending /\ outC' # Pending /\ outD' # Pending)

\* C11: in one call the tiers run in the order primary, block-mode,
\* secondary, tertiary, each attempted at most once and never again after a
\* failure; block-mode is attempted only if the primary text lacks
\* Devanagari or is shorter than 60 characters, the secondary tier only if
\* the best text so far lacks Devanagari, the tertiary tier only if the best
\* text so far is shorter than 50 characters.
C11_TiersInOrder == [][C11_Step]_vars

\* C11 witness: a call returned after a primary text with Devanagari, short
\* enough for block-mode to be attempted, the secondary tier skipped for the
\* Devanagari and the tertiary tier attempted for the length.
C11_Witness ==
    /\ pc = "done"
    /\ outA.kind = "text" /\ DEVN(outA.t)
    /\ outB.kind = "raised"
    /\ outC.kind = "skipped"
    /\ outD.kind = "text"

(***************************************************************************)
(* Claims about the stored analysis across script runs.                    *)
(***************************************************************************)

\* a CASE input and a GR input are present in the widgets w: an uploaded
\* file or a pasted text that is not blank
BothPresent(w) ==
    /\ w.case_up.present \/ w.case_txt_fallback.body # << >>
    /\ w.gr_up.present \/ w.gr_txt_fallback.body # << >>

\* what one script run may do to the stored analysis and to the orders
C12_Step ==
    \* written only by a Run Analysis that has both inputs, all four entries
    \* at once and from the widgets of that run
    /\ (session' # session) =>
          /\ notice' = "success"
          /\ BothPresent(widgets')
          /\ session'.keys = {"decision", "meta", "facts", "grtext"}
          /\ session'.entries.decision.case_id = widgets'.case_id
          /\ session'.entries.meta.hearing_date = widgets'.hearing_d
          /\ last_ok'.any /\ last_ok'.analysis = session'.entries
    \* a Run Analysis that misses an input reports it and stores nothing
    /\ (notice' # "none" /\ ~BothPresent(widgets')) =>
          /\ notice' \in {"error_case", "error_gr"}
          /\ session' = session
    \* a run that stored nothing leaves the latest successful analysis
    /\ (notice' # "success") => (session' = session /\ last_ok' = last_ok)
    \* the Order tab builds orders exactly when an analysis is stored, from
    \* the latest successful one
    /\ orders'.built <=> session'.keys # {}
    /\ orders'.built <=> last_ok'.any
    /\ orders'.built =>
          LET a == last_ok'.analysis IN
          /\ orders'.mr = order_marathi(a.meta, a.decision, a.facts, a.grtext)
          /\ orders'.en = order_english(a.meta, a.decision, a.facts)
          /\ orders'.mr.case_id = a.decision.case_id

\* C12: across any sequence of script runs the stored analysis (decision,
\* meta, facts, grtext) is written only by a Run Analysis in which both a
\* CASE input and a GR input are present; a Run Analysis missing either
\* input leaves it unchanged; the Order tab builds orders only when a stored
\* analysis exists, always from the most recent successful analysis.
C12_StoredAnalysisFrame == [][C12_Step]_vars

\* C12 witness: after an analysis of case ZP/1 was stored, a Run Analysis
\* for case ZP/2 without a GR input reported the missing GR, and the Order
\* tab built the orders of ZP/1.
C12_Witness ==
    /\ notice = "error_gr"
    /\ widgets.case_id = "ZP/2"
    /\ widgets.case_up.present /\ widgets.gr_txt_fallback.pad
    /\ orders.built /\ orders.mr.case_id = "ZP/1"
    /\ session.entries.decision.case_id = "ZP/1"

====
